---- MODULE Spec2Model ----
(***************************************************************************)
(* Model of MatterTlvToJson (src/python_testing/                           *)
(* basic_composition_support.py): the recursive conversion of a decoded    *)
(* TLV attribute tree into the type-annotated Matter JSON dictionary.      *)
(*                                                                         *)
(* A Python object is a record [type, val]: type is the name of its exact  *)
(* class (what type(x) returns), val its payload.  Integers, booleans      *)
(* (True is 1) and None (0) carry an integer; floats carry their value in  *)
(* halves (1.5 is 3); str and ValueDecodeFailure carry a sequence of       *)
(* characters (for a ValueDecodeFailure: the text str() gives); bytes a    *)
(* sequence of 0..255; list and tuple a sequence of objects; dict a        *)
(* sequence of [key, value] pairs in insertion order, keys distinct.       *)
(***************************************************************************)
EXTENDS Integers, Sequences, FiniteSets, TLC

VARIABLES tlv_data, pc, result, exc

vars == <<tlv_data, pc, result, exc>>

(***************************************************************************)
(* Bounds of the explored inputs.                                          *)
(***************************************************************************)
MaxLen == 2
MaxFields == 2

(***************************************************************************)
(* Python objects.                                                         *)
(***************************************************************************)
Obj(t, v) == [type |-> t, val |-> v]
UnsignedInt(n) == Obj("uint", n)
SignedInt(n) == Obj("int", n)
Bool(n) == Obj("bool", n)
Float32(n) == Obj("float32", n)
Float(n) == Obj("float", n)
Bytes(bs) == Obj("bytes", bs)
Str(cs) == Obj("str", cs)
None == Obj("NoneType", 0)
Failure(cs) == Obj("ValueDecodeFailure", cs)
Tuple == Obj("tuple", <<>>)
List(xs) == Obj("list", xs)
Dict(ps) == Obj("dict", ps)
Field(k, v) == [key |-> SignedInt(k), value |-> v]
EmptyDict == Dict(<<>>)

\* d[k]
DictGet(d, k) ==
  LET i == CHOOSE j \in 1..Len(d.val) : d.val[j].key = k
  IN d.val[i].value

\* d[k] = v : an existing key keeps its position, a new key is appended
DictSet(d, k, v) ==
  IF \E j \in 1..Len(d.val) : d.val[j].key = k
  THEN Dict([j \in 1..Len(d.val) |->
               IF d.val[j].key = k THEN [key |-> k, value |-> v] ELSE d.val[j]])
  ELSE Dict(Append(d.val, [key |-> k, value |-> v]))

(***************************************************************************)
(* str(key) of an integer: its decimal digits.                             *)
(***************************************************************************)
Digits == <<"0", "1", "2", "3", "4", "5", "6", "7", "8", "9">>

RECURSIVE NatStr(_)
NatStr(n) == IF n < 10 THEN <<Digits[n + 1]>>
             ELSE NatStr(n \div 10) \o <<Digits[(n % 10) + 1]>>

str(n) == IF n < 0 THEN <<"-">> \o NatStr(0 - n) ELSE NatStr(n)

(***************************************************************************)
(* base64.b64encode(value).decode("UTF-8")                                 *)
(***************************************************************************)
B64Alphabet ==
  <<"A","B","C","D","E","F","G","H","I","J","K","L","M","N","O","P",
    "Q","R","S","T","U","V","W","X","Y","Z","a","b","c","d","e","f",
    "g","h","i","j","k","l","m","n","o","p","q","r","s","t","u","v",
    "w","x","y","z","0","1","2","3","4","5","6","7","8","9","+","/">>

B64Char(n) == B64Alphabet[n + 1]

RECURSIVE b64encode(_)
b64encode(bs) ==
  IF Len(bs) = 0 THEN <<>>
  ELSE IF Len(bs) = 1 THEN
    <<B64Char(bs[1] \div 4), B64Char((bs[1] % 4) * 16), "=", "=">>
  ELSE IF Len(bs) = 2 THEN
    <<B64Char(bs[1] \div 4),
      B64Char((bs[1] % 4) * 16 + (bs[2] \div 16)),
      B64Char((bs[2] % 16) * 4), "=">>
  ELSE
    <<B64Char(bs[1] \div 4),
      B64Char((bs[1] % 4) * 16 + (bs[2] \div 16)),
      B64Char((bs[2] % 16) * 4 + (bs[3] \div 64)),
      B64Char(bs[3] % 64)>> \o b64encode(SubSeq(bs, 4, Len(bs)))

(***************************************************************************)
(* The tag table, indexed by the exact class of the value.                 *)
(***************************************************************************)
key_type_mappings_uint_as_int ==
  [uint |-> <<"I","N","T">>,
   int |-> <<"I","N","T">>,
   bool |-> <<"B","O","O","L">>,
   list |-> <<"A","R","R","A","Y">>,
   dict |-> <<"S","T","R","U","C","T">>,
   float32 |-> <<"F","L","O","A","T">>,
   float |-> <<"D","O","U","B","L","E">>,
   bytes |-> <<"B","Y","T","E","S">>,
   str |-> <<"S","T","R","I","N","G">>,
   ValueDecodeFailure |-> <<"E","R","R","O","R">>,
   NoneType |-> <<"N","U","L","L">>]

key_type_mappings ==
  [uint |-> <<"U","I","N","T">>,
   int |-> <<"I","N","T">>,
   bool |-> <<"B","O","O","L">>,
   list |-> <<"A","R","R","A","Y">>,
   dict |-> <<"S","T","R","U","C","T">>,
   float32 |-> <<"F","L","O","A","T">>,
   float |-> <<"D","O","U","B","L","E">>,
   bytes |-> <<"B","Y","T","E","S">>,
   str |-> <<"S","T","R","I","N","G">>,
   ValueDecodeFailure |-> <<"E","R","R","O","R">>,
   NoneType |-> <<"N","U","L","L">>]

ARRAY == <<"A","R","R","A","Y">>

(***************************************************************************)
(* Outcomes of a call: exc is "none" when it returns val, and the name of  *)
(* the exception when it raises (val is then str(e)).                      *)
(***************************************************************************)
Return(v) == [exc |-> "none", val |-> v]
Raise(e, msg) == [exc |-> e, val |-> Str(msg)]

\* f"Bad Value: {str(value)}"
BadValueMessage_bare(value) == value.val

BadValueMessage(value) ==
  <<"B","a","d"," ","V","a","l","u","e",":"," ">> \o value.val

\* [ConvertValue(item) for item in value], given the outcome of each item:
\* the first item that raises ends the comprehension
ListComprehension_last_raise(rs) ==
  IF \E i \in 1..Len(rs) : rs[i].exc # "none"
  THEN rs[CHOOSE i \in 1..Len(rs) :
            /\ rs[i].exc # "none"
            /\ \A j \in (i + 1)..Len(rs) : rs[j].exc = "none"]
  ELSE Return(List([i \in 1..Len(rs) |-> rs[i].val]))

ListComprehension_reversed(rs) ==
  IF \E i \in 1..Len(rs) : rs[i].exc # "none"
  THEN rs[CHOOSE i \in 1..Len(rs) :
            /\ rs[i].exc # "none"
            /\ \A j \in 1..(i - 1) : rs[j].exc = "none"]
  ELSE Return(List([i \in 1..Len(rs) |-> rs[Len(rs) + 1 - i].val]))

ListComprehension(rs) ==
  IF \E i \in 1..Len(rs) : rs[i].exc # "none"
  THEN rs[CHOOSE i \in 1..Len(rs) :
            /\ rs[i].exc # "none"
            /\ \A j \in 1..(i - 1) : rs[j].exc = "none"]
  ELSE Return(List([i \in 1..Len(rs) |-> rs[i].val]))

RECURSIVE ConvertValue(_)
RECURSIVE MatterTlvToJson(_)

\* value = MatterTlvToJson(value)
ConvertStruct_untouched(value) == Return(value)

ConvertStruct(value) ==
  LET r == MatterTlvToJson(value)
  IN IF r.exc = "none" THEN Return(r.val) ELSE [exc |-> r.exc, val |-> r.val]

ConvertValue(value) ==
  IF value.type = "ValueDecodeFailure" THEN
    Raise("ValueError", BadValueMessage(value))
  ELSE IF value.type = "bytes" THEN
    Return(Str(b64encode(value.val)))
  ELSE IF value.type = "list" THEN
    ListComprehension([i \in 1..Len(value.val) |-> ConvertValue(value.val[i])])
  ELSE IF value.type = "dict" THEN
    ConvertStruct(value)
  ELSE
    Return(value)

\* try: new_value = ConvertValue(value) / except ValueError as e: new_value = str(e)
CatchValueError_uncaught(conv) == conv

CatchValueError(conv) ==
  IF conv.exc = "ValueError" THEN Return(conv.val) ELSE conv

\* the sub-tag of an ARRAY field
SubElementType_converted(data, key, new_value) ==
  IF Len(new_value.val) > 0
  THEN LET first == IF new_value.type = "list" THEN new_value.val[1]
                    ELSE DictGet(data, key).val[1]
       IN IF first.type \in DOMAIN key_type_mappings
          THEN Return(key_type_mappings[first.type])
          ELSE Raise("KeyError", <<>>)
  ELSE Return(<<"?">>)

SubElementType(data, key, new_value) ==
  IF Len(new_value.val) > 0
  THEN LET first == DictGet(data, key).val[1]
       IN IF first.type \in DOMAIN key_type_mappings
          THEN Return(key_type_mappings[first.type])
          ELSE Raise("KeyError", <<>>)
  ELSE Return(<<"?">>)

\* the composite key
NewKey_no_field_id(key, element_type, sub_element_type) ==
  IF Len(element_type) > 0
  THEN IF Len(sub_element_type) > 0
       THEN element_type \o <<"-">> \o sub_element_type
       ELSE element_type
  ELSE str(key.val)

NewKey(key, element_type, sub_element_type) ==
  IF Len(element_type) > 0
  THEN IF Len(sub_element_type) > 0
       THEN str(key.val) \o <<":">> \o element_type \o <<"-">> \o sub_element_type
       ELSE str(key.val) \o <<":">> \o element_type
  ELSE str(key.val)

\* matter_json_dict[new_key] = new_value : the two dictionaries afterwards
StoreEntry_in_place(data, json, key, new_key, new_value) ==
  [exc |-> "none",
   tlv_data |-> DictSet(data, key, new_value),
   matter_json_dict |-> DictSet(json, Str(new_key), new_value)]

StoreEntry(data, json, key, new_key, new_value) ==
  [exc |-> "none",
   tlv_data |-> data,
   matter_json_dict |-> DictSet(json, Str(new_key), new_value)]

Abort(e, data, json) ==
  [exc |-> e, tlv_data |-> data, matter_json_dict |-> json]

\* one iteration of "for key in tlv_data"
LoopBody(data, json, key) ==
  LET value_type == DictGet(data, key).type
      value == DictGet(data, key)   \* copy.deepcopy: an equal value
  IN
  IF value_type \notin DOMAIN key_type_mappings THEN Abort("KeyError", data, json)
  ELSE
    LET element_type == key_type_mappings[value_type]
        conv == CatchValueError(ConvertValue(value))
    IN
    IF conv.exc # "none" THEN Abort(conv.exc, data, json)
    ELSE
      LET new_value == conv.val
          sub == IF Len(element_type) > 0 /\ element_type = ARRAY
                 THEN SubElementType(data, key, new_value)
                 ELSE Return(<<>>)
      IN
      IF sub.exc # "none" THEN Abort(sub.exc, data, json)
      ELSE StoreEntry(data, json, key,
                      NewKey(key, element_type, sub.val), new_value)

RECURSIVE Loop(_, _, _, _)
Loop(keys, i, data, json) ==
  IF i > Len(keys) THEN [exc |-> "none", val |-> json, arg |-> data]
  ELSE LET b == LoopBody(data, json, keys[i])
       IN IF b.exc # "none"
          THEN [exc |-> b.exc, val |-> EmptyDict, arg |-> b.tlv_data]
          ELSE Loop(keys, i + 1, b.tlv_data, b.matter_json_dict)

\* exc/val: the outcome; arg: the argument dictionary after the call
MatterTlvToJson(data) ==
  Loop([i \in 1..Len(data.val) |-> data.val[i].key], 1, data, EmptyDict)

(***************************************************************************)
(* The explored inputs.  Field values of the broad inputs are every leaf   *)
(* kind and a few containers; the nested inputs hold one field whose value *)
(* is an array or a struct over nested elements.  "tuple" stands for a     *)
(* class that has no entry in key_type_mappings.                           *)
(***************************************************************************)
FieldIds == {1, 2, 10}

BadTlv == <<"b","a","d"," ","T","L","V">>
Eof == <<"E","O","F">>

Scalars ==
  {UnsignedInt(5), SignedInt(1), Bool(1), Float32(3), Float(3),
   Str(<<"h","i">>), None}

Leaves == Scalars \cup {Bytes(<<0, 1>>), Failure(BadTlv), Tuple}

KeySeqs(ids, n) ==
  UNION {{ks \in [1..m -> ids] : \A i, j \in 1..m : ks[i] = ks[j] => i = j}
         : m \in 0..n}

\* d is a mapping of at most n fields, identifiers in ids and values in vals
IsMapping(d, ids, vals, n) ==
  \E ks \in KeySeqs(ids, n) : \E vs \in [1..Len(ks) -> vals] :
    d = Dict([i \in 1..Len(ks) |-> Field(ks[i], vs[i])])

\* d is the mapping of one field whose value is an array over vals
IsArrayInput(d, ids, vals, n) ==
  \E k \in ids : \E m \in 0..n : \E xs \in [1..m -> vals] :
    d = Dict(<<Field(k, List(xs))>>)

\* d is the mapping of one field whose value is a struct over vals
IsStructInput(d, ids, vals, n) ==
  \E k \in ids : \E ks \in KeySeqs(ids, n) : \E vs \in [1..Len(ks) -> vals] :
    d = Dict(<<Field(k, Dict([i \in 1..Len(ks) |-> Field(ks[i], vs[i])]))>>)

BroadValues ==
  Leaves \cup
  {List(<<>>),
   List(<<UnsignedInt(5), UnsignedInt(6)>>),
   List(<<SignedInt(1), Failure(BadTlv)>>),
   List(<<Dict(<<Field(7, Failure(Eof))>>)>>),
   List(<<List(<<Failure(Eof)>>), Failure(BadTlv)>>),
   EmptyDict,
   Dict(<<Field(7, Float32(3))>>),
   Dict(<<Field(7, Float32(3)), Field(8, Failure(Eof))>>)}

Elements ==
  {UnsignedInt(5), SignedInt(1), Bytes(<<255>>), Failure(BadTlv), Failure(Eof),
   Tuple,
   List(<<>>),
   List(<<UnsignedInt(5)>>),
   List(<<Failure(Eof)>>),
   List(<<Tuple>>),
   List(<<List(<<Failure(Eof)>>)>>),
   EmptyDict,
   Dict(<<Field(7, Float32(3))>>),
   Dict(<<Field(7, Failure(Eof))>>),
   Dict(<<Field(7, Tuple)>>),
   Dict(<<Field(7, Dict(<<Field(8, Float32(3)), Field(9, Failure(Eof))>>))>>)}

StructValues ==
  {Float32(3), Failure(Eof), Tuple,
   List(<<>>),
   List(<<UnsignedInt(5), Failure(BadTlv)>>),
   List(<<UnsignedInt(5), Tuple>>),
   Dict(<<Field(8, List(<<Dict(<<Field(9, Bool(0))>>)>>))>>)}

IsInput(d) ==
  \/ IsMapping(d, FieldIds, BroadValues, MaxFields)
  \/ IsArrayInput(d, FieldIds, Elements, MaxLen)
  \/ IsStructInput(d, FieldIds, StructValues, MaxFields)

(***************************************************************************)
(* The caller holds a decoded tree and calls MatterTlvToJson on it once.   *)
(***************************************************************************)
Init ==
  /\ IsInput(tlv_data)
  /\ pc = "ready"
  /\ result = EmptyDict
  /\ exc = "none"

Call ==
  /\ pc = "ready"
  /\ LET r == MatterTlvToJson(tlv_data)
     IN /\ tlv_data' = r.arg
        /\ pc' = IF r.exc = "none" THEN "returned" ELSE "raised"
        /\ result' = r.val
        /\ exc' = r.exc

Next == Call

Spec == Init /\ [][Next]_vars

(***************************************************************************)
(* Vocabulary of the properties.                                           *)
(***************************************************************************)

\* The tag the specification's table gives to each variant.
SpecTag(t) ==
  CASE t = "uint" -> <<"U","I","N","T">>
    [] t = "int" -> <<"I","N","T">>
    [] t = "bool" -> <<"B","O","O","L">>
    [] t = "list" -> <<"A","R","R","A","Y">>
    [] t = "dict" -> <<"S","T","R","U","C","T">>
    [] t = "float32" -> <<"F","L","O","A","T">>
    [] t = "float" -> <<"D","O","U","B","L","E">>
    [] t = "bytes" -> <<"B","Y","T","E","S">>
    [] t = "str" -> <<"S","T","R","I","N","G">>
    [] t = "ValueDecodeFailure" -> <<"E","R","R","O","R">>
    [] t = "NoneType" -> <<"N","U","L","L">>
    [] OTHER -> <<>>

ElevenVariants ==
  {"uint", "int", "bool", "list", "dict", "float32", "float", "bytes", "str",
   "ValueDecodeFailure", "NoneType"}

ScalarVariants == {"uint", "int", "bool", "float32", "float", "str", "NoneType"}

\* Some value reachable in the tree has a kind outside the eleven variants.
RECURSIVE HasUnmapped(_)
HasUnmapped(v) ==
  \/ v.type \notin ElevenVariants
  \/ /\ v.type = "list"
     /\ \E i \in 1..Len(v.val) : HasUnmapped(v.val[i])
  \/ /\ v.type = "dict"
     /\ \E i \in 1..Len(v.val) : HasUnmapped(v.val[i].value)

\* A DecodeFailure is reachable from v by descending through Array elements only.
RECURSIVE HasBareFailure(_)
HasBareFailure(v) ==
  \/ v.type = "ValueDecodeFailure"
  \/ /\ v.type = "list"
     /\ \E i \in 1..Len(v.val) : HasBareFailure(v.val[i])

\* The diagnostic of the first such DecodeFailure, depth-first, left to right.
RECURSIVE FirstBareFailure(_)
FirstBareFailure(v) ==
  IF v.type = "ValueDecodeFailure" THEN v.val
  ELSE LET i == CHOOSE j \in 1..Len(v.val) :
                  /\ HasBareFailure(v.val[j])
                  /\ \A h \in 1..(j - 1) : ~HasBareFailure(v.val[h])
       IN FirstBareFailure(v.val[i])

BadValuePrefix == <<"B","a","d"," ","V","a","l","u","e",":"," ">>

\* The parts of a composite key before and after its first ':'.
ColonAt(cs) ==
  IF \E i \in 1..Len(cs) : cs[i] = ":"
  THEN CHOOSE i \in 1..Len(cs) : cs[i] = ":" /\ \A j \in 1..(i - 1) : cs[j] # ":"
  ELSE Len(cs) + 1

KeyPrefix(cs) == SubSeq(cs, 1, ColonAt(cs) - 1)
KeySuffix(cs) == SubSeq(cs, ColonAt(cs) + 1, Len(cs))

IsDigit(c) == \E d \in 1..10 : Digits[d] = c
DigitValue(c) == (CHOOSE d \in 1..10 : Digits[d] = c) - 1

RECURSIVE DecimalValue(_)
DecimalValue(cs) ==
  IF Len(cs) = 0 THEN 0
  ELSE 10 * DecimalValue(SubSeq(cs, 1, Len(cs) - 1)) + DigitValue(cs[Len(cs)])

\* cs is the decimal numeral of the natural number n
IsDecimalOf(cs, n) ==
  /\ Len(cs) > 0
  /\ \A i \in 1..Len(cs) : IsDigit(cs[i])
  /\ Len(cs) = 1 \/ cs[1] # "0"
  /\ DecimalValue(cs) = n

\* k is the key "<fid>:<suffix>"
IsKey(k, fid, suffix) ==
  /\ k.type = "str"
  /\ ColonAt(k.val) <= Len(k.val)
  /\ IsDecimalOf(KeyPrefix(k.val), fid)
  /\ KeySuffix(k.val) = suffix

\* The places of the input tree that have a counterpart in the output:
\* each field of a mapping converted to a mapping with as many entries, and
\* each element of an array converted to an array of the same length.
RECURSIVE WalkObj(_, _, _)
RECURSIVE WalkFields(_, _, _, _)
RECURSIVE WalkElems(_, _, _, _)

WalkFields(din, dout, i, depth) ==
  IF i > Len(din.val) THEN <<>>
  ELSE <<[ctx |-> "field", depth |-> depth, fid |-> din.val[i].key.val,
          okey |-> dout.val[i].key,
          in |-> din.val[i].value, out |-> dout.val[i].value]>>
       \o WalkObj(din.val[i].value, dout.val[i].value, depth + 1)
       \o WalkFields(din, dout, i + 1, depth)

WalkElems(lin, lout, i, depth) ==
  IF i > Len(lin.val) THEN <<>>
  ELSE <<[ctx |-> "elem", depth |-> depth, fid |-> i, okey |-> Str(<<>>),
          in |-> lin.val[i], out |-> lout.val[i]]>>
       \o WalkObj(lin.val[i], lout.val[i], depth + 1)
       \o WalkElems(lin, lout, i + 1, depth)

WalkObj(in, out, depth) ==
  IF in.type = "dict" /\ out.type = "dict" /\ Len(in.val) = Len(out.val)
  THEN WalkFields(in, out, 1, depth)
  ELSE IF in.type = "list" /\ out.type = "list" /\ Len(in.val) = Len(out.val)
  THEN WalkElems(in, out, 1, depth)
  ELSE <<>>

Places == IF pc = "returned" THEN WalkObj(tlv_data, result, 1) ELSE <<>>

Place(P(_)) == \E i \in 1..Len(Places) : P(Places[i])
EveryPlace(P(_)) == \A i \in 1..Len(Places) : P(Places[i])

(***************************************************************************)
(* C1                                                                      *)
(***************************************************************************)
IsFailureField(p) == p.ctx = "field" /\ p.in.type = "ValueDecodeFailure"

C1_AsStated(p) ==
  IsFailureField(p) =>
    /\ IsKey(p.okey, p.fid, SpecTag("ValueDecodeFailure"))
    /\ p.out = Str(p.in.val)

C1_Amended(p) ==
  IsFailureField(p) =>
    /\ IsKey(p.okey, p.fid, SpecTag("ValueDecodeFailure"))
    /\ p.out = Str(BadValuePrefix \o p.in.val)

\* C1 as stated: a field k holding a DecodeFailure with diagnostic m gives
\* the entry "k:ERROR" whose value is exactly the string m.
C1_Original == EveryPlace(C1_AsStated)

\* C1 amended: a field k holding a DecodeFailure with diagnostic m gives the
\* entry "k:ERROR" whose value is the string "Bad Value: " followed by m.
C1_Theorem == EveryPlace(C1_Amended)

C1_Witness == Place(IsFailureField)

(***************************************************************************)
(* C2                                                                      *)
(***************************************************************************)
IsConvertedList(p) ==
  /\ p.out.type = "list"
  /\ Len(p.out.val) = Len(p.in.val)
  /\ \A i \in 1..Len(p.in.val) :
       ConvertValue(p.in.val[i]).exc = "none"
         => p.out.val[i] = ConvertValue(p.in.val[i]).val

C2_AsStated(p) == p.in.type = "list" => IsConvertedList(p)

C2_Amended(p) ==
  p.in.type = "list" /\ ~HasBareFailure(p.in) =>
    /\ IsConvertedList(p)
    /\ \A i \in 1..Len(p.in.val) : ConvertValue(p.in.val[i]).exc = "none"

\* C2 as stated: every Array value, also one that contains a DecodeFailure
\* element, is converted to a JSON array of the same length whose i-th
\* element is the conversion of the i-th input element.
C2_Original == EveryPlace(C2_AsStated)

\* C2 amended: every Array value from which no DecodeFailure can be reached
\* by descending through Array elements only is converted to a JSON array of
\* the same length whose i-th element is the conversion of the i-th input
\* element, in the same order.
C2_Theorem == EveryPlace(C2_Amended)

IsOrderedList(p) ==
  /\ p.in.type = "list"
  /\ ~HasBareFailure(p.in)
  /\ Len(p.in.val) >= 2
  /\ p.in.val[1] # p.in.val[2]

IsNestedList(p) ==
  p.ctx = "elem" /\ p.in.type = "list" /\ Len(p.in.val) > 0

C2_Witness == Place(IsOrderedList) /\ Place(IsNestedList)

(***************************************************************************)
(* C3                                                                      *)
(***************************************************************************)
\* C3: if any value reachable in the input tree has a kind with no entry in
\* the tag table, the call fails with a lookup error and returns no mapping.
C3_Claim ==
  pc # "ready" /\ HasUnmapped(tlv_data) =>
    pc = "raised" /\ exc = "KeyError" /\ result = EmptyDict

(***************************************************************************)
(* C4                                                                      *)
(***************************************************************************)
Without(d, i) ==
  Dict([j \in 1..(Len(d.val) - 1) |-> IF j < i THEN d.val[j] ELSE d.val[j + 1]])

\* In the mapping din converted to dout, the entries of the fields other
\* than a DecodeFailure field are those of din without that field.
SiblingsKept(din, dout) ==
  /\ dout.type = "dict"
  /\ Len(dout.val) = Len(din.val)
  /\ \A i \in 1..Len(din.val) :
       din.val[i].value.type = "ValueDecodeFailure" =>
         LET r == MatterTlvToJson(Without(din, i))
         IN r.exc = "none" /\ r.val = Without(dout, i)

C4_Nested(p) == p.in.type = "dict" => SiblingsKept(p.in, p.out)

\* C4: on an input built only from the eleven variants the call returns, and
\* in the top-level mapping and every nested Struct the entries of the fields
\* other than a DecodeFailure field are the ones produced without that field.
C4_Theorem ==
  pc # "ready" /\ ~HasUnmapped(tlv_data) =>
    /\ pc = "returned"
    /\ SiblingsKept(tlv_data, result)
    /\ EveryPlace(C4_Nested)

HasFailureAndSibling(d) ==
  /\ d.type = "dict"
  /\ Len(d.val) >= 2
  /\ \E i \in 1..Len(d.val) : d.val[i].value.type = "ValueDecodeFailure"

C4_NestedCase(p) == HasFailureAndSibling(p.in)

C4_Witness ==
  /\ pc = "returned"
  /\ ~HasUnmapped(tlv_data)
  /\ HasFailureAndSibling(tlv_data)
  /\ Place(C4_NestedCase)

(***************************************************************************)
(* C5                                                                      *)
(***************************************************************************)
IsArrayField(p) == p.ctx = "field" /\ p.in.type = "list"

C5_Key(p) ==
  IsArrayField(p) =>
    IsKey(p.okey, p.fid,
          SpecTag("list") \o <<"-">> \o
            (IF Len(p.in.val) = 0 THEN <<"?">> ELSE SpecTag(p.in.val[1].type)))

\* C5: the key of an Array-valued field k is "k:ARRAY-?" when the input array
\* is empty and "k:ARRAY-<T>" otherwise, T being the table tag of the variant
\* of the first input element, whatever the later elements and the result of
\* the conversion are.
C5_Theorem == EveryPlace(C5_Key)

IsMixedArrayField(p) ==
  /\ IsArrayField(p)
  /\ Len(p.in.val) >= 2
  /\ p.in.val[1].type # p.in.val[2].type
  /\ p.out.type = "str"

IsEmptyArrayField(p) == IsArrayField(p) /\ Len(p.in.val) = 0

C5_Witness == Place(IsMixedArrayField) /\ Place(IsEmptyArrayField)

(***************************************************************************)
(* C6                                                                      *)
(***************************************************************************)
\* C6: no step changes the input tree, whether the call returns or raises.
C6_Theorem == [][tlv_data' = tlv_data]_vars

C6_Witness ==
  /\ pc = "raised"
  /\ \E i \in 1..Len(tlv_data.val) : tlv_data.val[i].value.type = "list"

(***************************************************************************)
(* C7                                                                      *)
(***************************************************************************)
IsScalarField(p) == p.ctx = "field" /\ p.in.type \in ScalarVariants

C7_Entry(p) ==
  /\ IsScalarField(p) =>
       /\ IsKey(p.okey, p.fid, SpecTag(p.in.type))
       /\ p.out = p.in
  /\ p.ctx = "field" /\ p.in.type # "list" =>
       /\ p.okey.type = "str"
       /\ \A i \in 1..Len(p.okey.val) : p.okey.val[i] # "-"

\* C7: a field k holding a scalar V(x) with table tag T gives exactly the
\* entry ("k:T", x); only the key of an Array field carries a "-" sub-tag.
C7_Theorem == EveryPlace(C7_Entry)

IsUintField(p) == p.ctx = "field" /\ p.in.type = "uint"
IsBoolField(p) == p.ctx = "field" /\ p.in.type = "bool"

C7_Witness == Place(IsUintField) /\ Place(IsBoolField)

(***************************************************************************)
(* C8                                                                      *)
(***************************************************************************)
C8_Struct(p) ==
  p.in.type = "dict" =>
    /\ p.out.type = "dict"
    /\ Len(p.out.val) = Len(p.in.val)
    /\ \A i \in 1..Len(p.out.val) :
         /\ p.out.val[i].key.type = "str"
         /\ ColonAt(p.out.val[i].key.val) <= Len(p.out.val[i].key.val)
         /\ IsDecimalOf(KeyPrefix(p.out.val[i].key.val), p.in.val[i].key.val)
         /\ Len(KeySuffix(p.out.val[i].key.val)) > 0
    /\ p.out = MatterTlvToJson(p.in).val

\* C8: every Struct value, as a field value or as an Array element and at
\* any depth, is converted to MatterTlvToJson of it: a nested object with as
\* many entries, each under a composite type-tagged key.
C8_Theorem == EveryPlace(C8_Struct)

IsDeepStruct(p) == p.in.type = "dict" /\ Len(p.in.val) > 0 /\ p.depth >= 3

C8_Witness == Place(IsDeepStruct)

(***************************************************************************)
(* C9                                                                      *)
(***************************************************************************)
OneEntryPerField(din, dout) ==
  /\ dout.type = "dict"
  /\ Len(dout.val) = Len(din.val)
  /\ \A i \in 1..Len(dout.val) :
       /\ dout.val[i].key.type = "str"
       /\ ColonAt(dout.val[i].key.val) <= Len(dout.val[i].key.val)
       /\ IsDecimalOf(KeyPrefix(dout.val[i].key.val), din.val[i].key.val)
  /\ \A i, j \in 1..Len(dout.val) :
       dout.val[i].key = dout.val[j].key => i = j

C9_Nested(p) == p.in.type = "dict" => OneEntryPerField(p.in, p.out)

\* C9: whenever the call returns, the output has one entry per input field,
\* in the input's iteration order, the part of each key before the first ':'
\* being the decimal field identifier; keys never collide and the empty
\* mapping gives the empty mapping.
C9_Theorem ==
  pc = "returned" =>
    /\ OneEntryPerField(tlv_data, result)
    /\ EveryPlace(C9_Nested)
    /\ tlv_data = EmptyDict => result = EmptyDict

C9_Witness ==
  /\ pc = "returned"
  /\ Len(tlv_data.val) >= 2
  /\ tlv_data.val[1].key.val > tlv_data.val[2].key.val
  /\ tlv_data.val[1].key.val >= 10

(***************************************************************************)
(* C10                                                                     *)
(***************************************************************************)
C10_Absorbed(p) ==
  /\ IsArrayField(p) /\ HasBareFailure(p.in) =>
       /\ p.out = Str(BadValuePrefix \o FirstBareFailure(p.in))
       /\ IsKey(p.okey, p.fid,
                SpecTag("list") \o <<"-">> \o SpecTag(p.in.val[1].type))
  /\ IsArrayField(p) /\ ~HasBareFailure(p.in) => p.out.type = "list"
  /\ p.ctx = "elem" =>
       /\ ~HasBareFailure(p.in)
       /\ p.in.type = "list" => p.out.type = "list"
       /\ p.in.type = "dict" => p.out.type = "dict"
  /\ IsFailureField(p) => p.out.type = "str"

\* C10: a field holding an Array from which a DecodeFailure is reachable
\* through Array elements only has as its value the one string "Bad Value: "
\* followed by the diagnostic of the first such DecodeFailure (depth-first,
\* left to right), under the key "k:ARRAY-<tag of the first element>"; a
\* DecodeFailure inside a Struct element is absorbed in that Struct's own
\* field and the enclosing array stays an array.
C10_Theorem == EveryPlace(C10_Absorbed)

IsAbsorbedDeep(p) ==
  /\ IsArrayField(p)
  /\ Len(p.in.val) >= 2
  /\ HasBareFailure(p.in.val[1])
  /\ HasBareFailure(p.in.val[2])
  /\ FirstBareFailure(p.in.val[1]) # FirstBareFailure(p.in.val[2])
  /\ p.in.val[1].type = "list"

IsFailureInStructElem(p) ==
  IsFailureField(p) /\ p.depth >= 3

C10_Witness == Place(IsAbsorbedDeep) /\ Place(IsFailureInStructElem)

====
